---- MODULE Spec2Model ----
(***************************************************************************)
(* PRBot (prbot.py): a batch job that loads a status file, obtains a       *)
(* GitHub App installation token (cached in the status file), walks the    *)
(* repository's pull requests, posts one templated comment on each new     *)
(* pull request (optionally closing it) and writes the status file back.   *)
(*                                                                         *)
(* Text is a sequence of one-character strings.  A template is a sequence  *)
(* of items: a literal character, "U" (the {{ username }} placeholder) or  *)
(* "E" (an expression that raises when rendered).  A timestamp string      *)
(* "1970-01-01THH:MM:SS<tz>" is the record [h, m, s, tz].                  *)
(***************************************************************************)
EXTENDS Integers, Sequences, FiniteSets, TLC

(* ---- bounds of the model ---- *)
MaxPR == 2            \* pull requests that may be opened
MaxNow == 2           \* clock ticks that may elapse
MaxUserComments == 1  \* comments other users may add to one pull request

(* ---- program constants ---- *)
TokenBuffer == 300    \* prbot.py:107, the 5-minute buffer
HttpOk == 200         \* prbot.py:74
HttpCreated == 201    \* prbot.py:85

(* ---- environment (the hosting platform, the clock, the file system) ---- *)
ClockStep == TokenBuffer
TokenLifetime == 2 * ClockStep
Runs == {1, 2}
Scheduled == {1}      \* serialized runs: one process at a time
Logins == {<<"a">>, <<"b">>}
Whitespace == {" ", "\n"}
Templates == {<<"h", "U", " ">>, <<"h", "E">>}
UserBodies == {<<"x", "h", "a">>}
TokenNames == <<"ghs_0", "ghs_1", "ghs_2", "ghs_3">>
LookupStatuses == {200, 404}
IssueStatuses == {201, 403}

\* the token the platform issues at the instant t
IssuedToken(t) == TokenNames[((t \div ClockStep) % Len(TokenNames)) + 1]

(* ---- JSON values of the status file ---- *)
JNull == [t |-> "null"]
JStr(v) == [t |-> "str", empty |-> FALSE, v |-> v]
JEmptyStr == [t |-> "str", empty |-> TRUE]
JInt(n) == [t |-> "int", v |-> n]

\* Python truthiness of a value read from the status dictionary
Truthy(j) ==
  CASE j.t = "null" -> FALSE
    [] j.t = "int" -> j.v # 0
    [] OTHER -> ~j.empty

required_vars == {"GITHUB_APP_CLIENT_ID", "GITHUB_APP_PRIVATE_KEY_PATH",
                  "MESSAGE_PATH", "STATUS_FILE", "REPO_NAME"}

\* the module-level validation loop: every required variable is set and non-empty
RequiredVarsSet(unset) == \A var \in required_vars : var \notin unset

(* ---- text ---- *)
RECURSIVE LStrip(_)
LStrip(s) ==
  IF s = <<>> THEN s
  ELSE IF Head(s) \in Whitespace THEN LStrip(Tail(s)) ELSE s

RECURSIVE RStrip(_)
RStrip(s) ==
  IF s = <<>> THEN s
  ELSE IF s[Len(s)] \in Whitespace THEN RStrip(SubSeq(s, 1, Len(s) - 1)) ELSE s

\* str.strip()
Strip(s) == RStrip(LStrip(s))

\* Python's  sub in s  for strings
Contains(sub, s) ==
  \E i \in 1..(Len(s) - Len(sub) + 1) : SubSeq(s, i, i + Len(sub) - 1) = sub

\* msg.render(username=login): the text, or an exception raised by the template
RECURSIVE Render(_, _)
Render(tpl, login) ==
  IF tpl = <<>> THEN [ok |-> TRUE, text |-> <<>>]
  ELSE LET rest == Render(Tail(tpl), login)
       IN  CASE Head(tpl) = "E" -> [ok |-> FALSE, text |-> <<>>]
             [] Head(tpl) = "U" -> [ok |-> rest.ok, text |-> login \o rest.text]
             [] OTHER -> [ok |-> rest.ok, text |-> <<Head(tpl)>> \o rest.text]

(* ---- timestamps ---- *)
\* the platform's expires_at for the instant t (seconds since the epoch)
FormatIso(t) ==
  [h |-> t \div 3600, m |-> (t % 3600) \div 60, s |-> t % 60, tz |-> "Z"]

\* variant: the text after the seconds is not compared with "Z"
Strptime_Lenient(e) ==
  IF e.h \in 0..23 /\ e.m \in 0..59 /\ e.s \in 0..61
  THEN [ok |-> TRUE, ts |-> e.h * 3600 + e.m * 60 + e.s]
  ELSE [ok |-> FALSE, ts |-> 0]

\* time.strptime(s, "%Y-%m-%dT%H:%M:%SZ") followed by calendar.timegm
Strptime(e) ==
  IF e.tz = "Z" /\ e.h \in 0..23 /\ e.m \in 0..59 /\ e.s \in 0..61
  THEN [ok |-> TRUE, ts |-> e.h * 3600 + e.m * 60 + e.s]
  ELSE [ok |-> FALSE, ts |-> 0]

(* ---- the status dictionary and the status file ---- *)
EmptyDict == [k \in {} |-> JNull]

\* dict.setdefault(k, v)
SetDefault(d, k, v) == IF k \in DOMAIN d THEN d ELSE (k :> v) @@ d

\* d[k] = v
DictSet(d, k, v) == (k :> v) @@ [x \in DOMAIN d \ {k} |-> d[x]]

AbsentFile == [kind |-> "absent"]
CorruptFile == [kind |-> "corrupt"]
JsonFile(d) == [kind |-> "json", data |-> d]

\* variant: every exception of json.load is taken for a missing file
JsonLoad_Lenient(f) ==
  IF f.kind = "json" THEN [ok |-> TRUE, status |-> f.data]
  ELSE [ok |-> TRUE, status |-> EmptyDict]

\* json.load(open(STATUS_FILE)) with the FileNotFoundError handler of main
JsonLoad(f) ==
  CASE f.kind = "absent" -> [ok |-> TRUE, status |-> EmptyDict]
    [] f.kind = "corrupt" -> [ok |-> FALSE, status |-> EmptyDict]
    [] OTHER -> [ok |-> TRUE, status |-> f.data]

\* variant: the mark of a fresh start is 1
WithDefaults_FromOne(d) ==
  SetDefault(SetDefault(SetDefault(d, "pull_req_number", JInt(1)),
                        "installation_token", JNull),
             "token_expires_at", JNull)

\* the three setdefault calls of main
WithDefaults(d) ==
  SetDefault(SetDefault(SetDefault(d, "pull_req_number", JInt(0)),
                        "installation_token", JNull),
             "token_expires_at", JNull)

Mark(st) == st["pull_req_number"].v

(* ---- credential manager ---- *)
\* variant: the status of the installation lookup is not examined
GetInstallationToken_IgnoreLookupStatus(keyReadable, lookupStatus, issueStatus, tok, expires) ==
  IF ~keyReadable
  THEN [ok |-> FALSE, lookups |-> 0, issues |-> 0, token |-> "", expires_at |-> expires]
  ELSE IF issueStatus # HttpCreated
  THEN [ok |-> FALSE, lookups |-> 1, issues |-> 1, token |-> "", expires_at |-> expires]
  ELSE [ok |-> TRUE, lookups |-> 1, issues |-> 1, token |-> tok, expires_at |-> expires]

\* get_installation_token: key file, installation lookup, token issuance
GetInstallationToken(keyReadable, lookupStatus, issueStatus, tok, expires) ==
  IF ~keyReadable
  THEN [ok |-> FALSE, lookups |-> 0, issues |-> 0, token |-> "", expires_at |-> expires]
  ELSE IF lookupStatus # HttpOk
  THEN [ok |-> FALSE, lookups |-> 1, issues |-> 0, token |-> "", expires_at |-> expires]
  ELSE IF issueStatus # HttpCreated
  THEN [ok |-> FALSE, lookups |-> 1, issues |-> 1, token |-> "", expires_at |-> expires]
  ELSE [ok |-> TRUE, lookups |-> 1, issues |-> 1, token |-> tok, expires_at |-> expires]

\* variant: the cache test without the 5-minute buffer
CachedTokenUsable_NoBuffer(st, current_time) ==
  /\ "installation_token" \in DOMAIN st
  /\ "token_expires_at" \in DOMAIN st
  /\ Truthy(st["installation_token"])
  /\ Truthy(st["token_expires_at"])
  /\ LET parsed == Strptime(st["token_expires_at"].v)
     IN  parsed.ok /\ parsed.ts > current_time

\* the cache test of get_or_refresh_token (lines 96-111)
CachedTokenUsable(st, current_time) ==
  /\ "installation_token" \in DOMAIN st
  /\ "token_expires_at" \in DOMAIN st
  /\ Truthy(st["installation_token"])
  /\ Truthy(st["token_expires_at"])
  /\ LET parsed == Strptime(st["token_expires_at"].v)
     IN  parsed.ok /\ parsed.ts > current_time + TokenBuffer

\* get_or_refresh_token: the token returned and the status it leaves
GetOrRefreshToken(st, current_time, keyReadable, lookupStatus, issueStatus, tok, expires) ==
  IF CachedTokenUsable(st, current_time)
  THEN [ok |-> TRUE, hit |-> TRUE, token |-> st["installation_token"].v,
        status |-> st, lookups |-> 0, issues |-> 0]
  ELSE LET g == GetInstallationToken(keyReadable, lookupStatus, issueStatus, tok, expires)
       IN  IF g.ok
           THEN [ok |-> TRUE, hit |-> FALSE, token |-> g.token,
                 status |-> DictSet(DictSet(st, "installation_token", JStr(g.token)),
                                    "token_expires_at", JStr(g.expires_at)),
                 lookups |-> g.lookups, issues |-> g.issues]
           ELSE [ok |-> FALSE, hit |-> FALSE, token |-> "",
                 status |-> st, lookups |-> g.lookups, issues |-> g.issues]

(* ---- poll: the decisions of the loop body ---- *)
\* variant: pull.number < threshold
BelowThreshold_Strict(number, threshold) == number < threshold

\* pull.number <= threshold
BelowThreshold(number, threshold) == number <= threshold

\* variant: the closed test is missing
SkipClosed_Never(pull) == FALSE

\* if pull.closed_at
SkipClosed(pull) == pull.closed

\* variant: the body is compared for equality with the stripped text
IsDuplicate_Equal(comment, existing_comments) ==
  \E i \in 1..Len(existing_comments) : existing_comments[i].body = Strip(comment)

\* any(comment_text in c.body for c in existing_comments)
IsDuplicate(comment, existing_comments) ==
  LET comment_text == Strip(comment)
  IN  \E i \in 1..Len(existing_comments) : Contains(comment_text, existing_comments[i].body)

\* variant: the mark is set to the number of the pull request
AdvanceMark_Assign(mark, number) == number

\* variant: the mark is never advanced
AdvanceMark_Keep(mark, number) == mark

\* variant: the mark is set to the number after the pull request
AdvanceMark_Next(mark, number) == IF number + 1 > mark THEN number + 1 ELSE mark

\* max(status['pull_req_number'], pull.number)
AdvanceMark(mark, number) == IF number > mark THEN number ELSE mark

(* ---- state ---- *)
VARIABLES
  now,        \* the wall clock, seconds since the epoch
  file,       \* the content of STATUS_FILE
  repo,       \* the platform: pull request number i is repo[i]
  autoClose,  \* AUTO_CLOSE
  template,   \* the content of MESSAGE_PATH
  pc,         \* pc[r]: the position of run r in main
  status,     \* status[r]: the status dictionary of run r
  threshold,  \* threshold[r]: the local of poll
  iter,       \* iter[r]: the pull requests poll has still to visit
  cur,        \* cur[r]: the pull request and the comment about to be posted
  hist        \* hist[r]: what run r did (history, read by the properties only)

vars == <<now, file, repo, autoClose, template, pc, status, threshold, iter, cur, hist>>

NoCur == [number |-> 0, comment |-> <<>>]

NoHist ==
  [outcome |-> "none", fileAtStart |-> AbsentFile, markAtStart |-> 0,
   preFail |-> FALSE, polled |-> FALSE, listed |-> <<>>, listedClosed |-> {},
   fetched |-> {}, commented |-> {}, posts |-> <<>>, edited |-> {},
   failed |-> {}, succeeded |-> {}, writes |-> 0, tok |-> [called |-> FALSE]]

\* status files a deployment may start from
InitialFiles ==
  {AbsentFile, CorruptFile,
   JsonFile([pull_req_number |-> JInt(1)]),
   JsonFile([pull_req_number |-> JInt(0), installation_token |-> JStr("ghs_old"),
             token_expires_at |-> JStr([h |-> 0, m |-> 10, s |-> 0, tz |-> "+00:00"])])}

Init ==
  /\ now = 0
  /\ file \in InitialFiles
  /\ repo = <<>>
  /\ autoClose \in BOOLEAN
  /\ template \in Templates
  /\ pc = [r \in Runs |-> "idle"]
  /\ status = [r \in Runs |-> EmptyDict]
  /\ threshold = [r \in Runs |-> 0]
  /\ iter = [r \in Runs |-> <<>>]
  /\ cur = [r \in Runs |-> NoCur]
  /\ hist = [r \in Runs |-> NoHist]

(* ---- the environment ---- *)
\* somebody opens a pull request; numbers increase in creation order
OpenPull(login) ==
  /\ Len(repo) < MaxPR
  /\ repo' = Append(repo, [login |-> login, closed |-> FALSE, comments |-> <<>>])
  /\ UNCHANGED <<now, file, autoClose, template, pc, status, threshold, iter, cur, hist>>

\* somebody other than the bot closes a pull request
ClosePull(n) ==
  /\ n \in 1..Len(repo)
  /\ ~repo[n].closed
  /\ repo' = [repo EXCEPT ![n].closed = TRUE]
  /\ UNCHANGED <<now, file, autoClose, template, pc, status, threshold, iter, cur, hist>>

UserComments(n) == {i \in 1..Len(repo[n].comments) : ~repo[n].comments[i].bot}

\* somebody other than the bot comments on a pull request
UserComment(n, body) ==
  /\ n \in 1..Len(repo)
  /\ Cardinality(UserComments(n)) < MaxUserComments
  /\ repo' = [repo EXCEPT ![n].comments = Append(@, [body |-> body, bot |-> FALSE])]
  /\ UNCHANGED <<now, file, autoClose, template, pc, status, threshold, iter, cur, hist>>

Tick ==
  /\ now < MaxNow * ClockStep
  /\ now' = now + ClockStep
  /\ UNCHANGED <<file, repo, autoClose, template, pc, status, threshold, iter, cur, hist>>

(* ---- one run of the program ---- *)
\* The process starts: the module-level validation of the environment, then main.
Launch(r) ==
  /\ pc[r] = "idle"
  /\ \E unset \in {{}, {"STATUS_FILE"}} :
       LET h0 == [NoHist EXCEPT !.fileAtStart = file, !.outcome = "running",
                                !.preFail = (unset # {})]
       IN  IF RequiredVarsSet(unset)
           THEN /\ pc' = [pc EXCEPT ![r] = "load"]
                /\ hist' = [hist EXCEPT ![r] = h0]
           ELSE /\ pc' = [pc EXCEPT ![r] = "done"]
                /\ hist' = [hist EXCEPT ![r] = [h0 EXCEPT !.outcome = "config_error"]]
  /\ UNCHANGED <<now, file, repo, autoClose, template, status, threshold, iter, cur>>

\* Runs are serialized by the scheduler: no other run is in progress.
StartRun(r) ==
  /\ \A q \in Runs \ {r} : pc[q] = "idle"
  /\ Launch(r)

\* main, lines 161-169: load the status file and fill in the defaults
LoadState(r) ==
  /\ pc[r] = "load"
  /\ LET loaded == JsonLoad(file)
         unparseable == file.kind = "corrupt"
     IN  IF loaded.ok
         THEN /\ status' = [status EXCEPT ![r] = WithDefaults(loaded.status)]
              /\ pc' = [pc EXCEPT ![r] = "token"]
              /\ hist' = [hist EXCEPT ![r].markAtStart = Mark(WithDefaults(loaded.status)),
                                      ![r].preFail = unparseable]
         ELSE /\ status' = status
              /\ pc' = [pc EXCEPT ![r] = "done"]
              /\ hist' = [hist EXCEPT ![r].outcome = "state_error",
                                      ![r].preFail = unparseable]
  /\ UNCHANGED <<now, file, repo, autoClose, template, threshold, iter, cur>>

\* main, lines 171-177: the call of get_or_refresh_token
RefreshToken(r) ==
  /\ pc[r] = "token"
  /\ \E keyReadable \in BOOLEAN, lookupStatus \in LookupStatuses,
        issueStatus \in IssueStatuses :
       LET res == GetOrRefreshToken(status[r], now, keyReadable, lookupStatus, issueStatus,
                                    IssuedToken(now), FormatIso(now + TokenLifetime))
           call == [called |-> TRUE, before |-> status[r], at |-> now, ok |-> res.ok,
                    token |-> res.token, lookups |-> res.lookups, issues |-> res.issues,
                    after |-> res.status,
                    keyReadable |-> res.hit \/ keyReadable,
                    lookupStatus |-> IF res.lookups = 0 THEN HttpOk ELSE lookupStatus,
                    issueStatus |-> IF res.issues = 0 THEN HttpCreated ELSE issueStatus]
           \* the key was needed and unreadable, or an exchange made was refused
           refused == /\ ~res.hit
                      /\ ~keyReadable \/ lookupStatus # HttpOk \/ issueStatus # HttpCreated
       IN  IF res.ok
           THEN /\ status' = [status EXCEPT ![r] = res.status]
                /\ pc' = [pc EXCEPT ![r] = "msg"]
                /\ hist' = [hist EXCEPT ![r].tok = call, ![r].preFail = refused]
           ELSE /\ status' = status
                /\ pc' = [pc EXCEPT ![r] = "done"]
                /\ hist' = [hist EXCEPT ![r].tok = call, ![r].outcome = "cred_error",
                                        ![r].preFail = refused]
  /\ UNCHANGED <<now, file, repo, autoClose, template, threshold, iter, cur>>

\* main, line 179: read and compile the template
LoadTemplate(r) ==
  /\ pc[r] = "msg"
  /\ \E readable \in BOOLEAN :
       IF readable
       THEN /\ pc' = [pc EXCEPT ![r] = "repo"]
            /\ hist' = hist
       ELSE /\ pc' = [pc EXCEPT ![r] = "done"]
            /\ hist' = [hist EXCEPT ![r].outcome = "template_error", ![r].preFail = TRUE]
  /\ UNCHANGED <<now, file, repo, autoClose, template, status, threshold, iter, cur>>

Snapshot(n) == [number |-> n, login |-> repo[n].login, closed |-> repo[n].closed]

\* the lists the platform may return: every open pull request, and any of the
\* closed ones, in the order the platform chooses
Listings ==
  LET all == 1..Len(repo)
      open == {n \in all : ~repo[n].closed}
      sets == {S \in SUBSET all : open \subseteq S}
  IN  UNION {{f \in [1..Cardinality(S) -> S] : \A i, j \in DOMAIN f : i # j => f[i] # f[j]}
             : S \in sets}

\* main, lines 180-185, and poll, lines 124-125: the repository, the list, the threshold
GetPulls(r) ==
  /\ pc[r] = "repo"
  /\ \E ok \in BOOLEAN, lst \in Listings :
       IF ok
       THEN /\ threshold' = [threshold EXCEPT ![r] = Mark(status[r])]
            /\ iter' = [iter EXCEPT ![r] = [i \in DOMAIN lst |-> Snapshot(lst[i])]]
            /\ pc' = [pc EXCEPT ![r] = "poll"]
            /\ hist' = [hist EXCEPT ![r].polled = TRUE, ![r].listed = lst,
                                    ![r].listedClosed =
                                      {lst[i] : i \in {j \in DOMAIN lst : repo[lst[j]].closed}}]
       ELSE /\ threshold' = threshold
            /\ iter' = iter
            /\ pc' = [pc EXCEPT ![r] = "done"]
            /\ hist' = [hist EXCEPT ![r].outcome = "repo_error", ![r].preFail = TRUE]
  /\ UNCHANGED <<now, file, repo, autoClose, template, status, cur>>

\* the value pull.number is compared with: the local threshold of line 125
StopAt(r) == threshold[r]

\* poll, lines 126-147: the head of the loop, up to the duplicate check
PollNext(r) ==
  /\ pc[r] = "poll"
  /\ IF iter[r] = <<>>
     THEN /\ pc' = [pc EXCEPT ![r] = "save"]
          /\ UNCHANGED <<iter, cur, hist>>
     ELSE LET pull == Head(iter[r])
              comment == Render(template, pull.login)
          IN  IF BelowThreshold(pull.number, StopAt(r))
              THEN \* break
                   /\ pc' = [pc EXCEPT ![r] = "save"]
                   /\ UNCHANGED <<iter, cur, hist>>
              ELSE IF ~comment.ok
              THEN \* msg.render raises outside the try: out of poll and out of main
                   /\ pc' = [pc EXCEPT ![r] = "done"]
                   /\ hist' = [hist EXCEPT ![r].outcome = "poll_error"]
                   /\ UNCHANGED <<iter, cur>>
              ELSE IF SkipClosed(pull)
              THEN \* continue
                   /\ iter' = [iter EXCEPT ![r] = Tail(@)]
                   /\ UNCHANGED <<pc, cur, hist>>
              ELSE \E fetchOk \in BOOLEAN :
                     IF ~fetchOk
                     THEN \* get_issue_comments raises: the except clause
                          /\ iter' = [iter EXCEPT ![r] = Tail(@)]
                          /\ hist' = [hist EXCEPT ![r].failed = @ \cup {pull.number}]
                          /\ UNCHANGED <<pc, cur>>
                     ELSE IF IsDuplicate(comment.text, repo[pull.number].comments)
                     THEN \* continue
                          /\ iter' = [iter EXCEPT ![r] = Tail(@)]
                          /\ hist' = [hist EXCEPT ![r].fetched = @ \cup {pull.number}]
                          /\ UNCHANGED <<pc, cur>>
                     ELSE /\ pc' = [pc EXCEPT ![r] = "post"]
                          /\ cur' = [cur EXCEPT ![r] = [number |-> pull.number,
                                                        comment |-> comment.text]]
                          /\ hist' = [hist EXCEPT ![r].fetched = @ \cup {pull.number}]
                          /\ UNCHANGED iter
  /\ UNCHANGED <<now, file, repo, autoClose, template, status, threshold>>

\* poll, lines 149-158: post the comment, close the pull request, advance the mark
PostComment(r) ==
  /\ pc[r] = "post"
  /\ \E postOk \in BOOLEAN, closeOk \in BOOLEAN :
       LET n == cur[r].number
           posted == [repo EXCEPT ![n].comments =
                        Append(@, [body |-> cur[r].comment, bot |-> TRUE])]
           advanced == DictSet(status[r], "pull_req_number",
                               JInt(AdvanceMark(Mark(status[r]), n)))
       IN  IF ~postOk
           THEN /\ repo' = repo
                /\ status' = status
                /\ hist' = [hist EXCEPT ![r].failed = @ \cup {n}]
           ELSE IF autoClose /\ ~closeOk
           THEN /\ repo' = posted
                /\ status' = status
                /\ hist' = [hist EXCEPT ![r].commented = @ \cup {n},
                                        ![r].posts = Append(@, n),
                                        ![r].failed = @ \cup {n}]
           ELSE /\ repo' = IF autoClose THEN [posted EXCEPT ![n].closed = TRUE] ELSE posted
                /\ status' = [status EXCEPT ![r] = advanced]
                /\ hist' = [hist EXCEPT ![r].commented = @ \cup {n},
                                        ![r].posts = Append(@, n),
                                        ![r].edited = IF autoClose THEN @ \cup {n} ELSE @,
                                        ![r].succeeded = @ \cup {n}]
  /\ pc' = [pc EXCEPT ![r] = "poll"]
  /\ iter' = [iter EXCEPT ![r] = Tail(@)]
  /\ cur' = [cur EXCEPT ![r] = NoCur]
  /\ UNCHANGED <<now, file, autoClose, template, threshold>>

\* main, line 186: open(STATUS_FILE, 'w') truncates, json.dump writes the record
SaveState(r) ==
  /\ pc[r] = "save"
  /\ file' = JsonFile(status[r])
  /\ pc' = [pc EXCEPT ![r] = "done"]
  /\ hist' = [hist EXCEPT ![r].writes = @ + 1, ![r].outcome = "ok"]
  /\ UNCHANGED <<now, repo, autoClose, template, status, threshold, iter, cur>>

\* the process is killed
Crash(r) ==
  /\ pc[r] \notin {"idle", "done"}
  /\ pc' = [pc EXCEPT ![r] = "done"]
  /\ hist' = [hist EXCEPT ![r].outcome = "crashed"]
  /\ UNCHANGED <<now, file, repo, autoClose, template, status, threshold, iter, cur>>

\* the process has ended: nothing of it remains but the file and the repository
Exit(r) ==
  /\ pc[r] = "done"
  /\ pc' = [pc EXCEPT ![r] = "idle"]
  /\ status' = [status EXCEPT ![r] = EmptyDict]
  /\ threshold' = [threshold EXCEPT ![r] = 0]
  /\ iter' = [iter EXCEPT ![r] = <<>>]
  /\ cur' = [cur EXCEPT ![r] = NoCur]
  /\ hist' = [hist EXCEPT ![r] = NoHist]
  /\ UNCHANGED <<now, file, repo, autoClose, template>>

\* serialized runs against a repository that changes under them; the clock stands
Next ==
  \/ \E login \in Logins : OpenPull(login)
  \/ \E n \in 1..MaxPR : ClosePull(n)
  \/ \E n \in 1..MaxPR, body \in UserBodies : UserComment(n, body)
  \/ \E r \in Scheduled : StartRun(r)
  \/ \E r \in Scheduled : LoadState(r)
  \/ \E r \in Scheduled : RefreshToken(r)
  \/ \E r \in Scheduled : LoadTemplate(r)
  \/ \E r \in Scheduled : GetPulls(r)
  \/ \E r \in Scheduled : PollNext(r)
  \/ \E r \in Scheduled : PostComment(r)
  \/ \E r \in Scheduled : SaveState(r)
  \/ \E r \in Scheduled : Crash(r)
  \/ \E r \in Scheduled : Exit(r)

Spec == Init /\ [][Next]_vars

\* serialized runs against a repository without pull requests, as time passes
NextToken ==
  \/ Tick
  \/ \E r \in Scheduled : StartRun(r)
  \/ \E r \in Scheduled : LoadState(r)
  \/ \E r \in Scheduled : RefreshToken(r)
  \/ \E r \in Scheduled : LoadTemplate(r)
  \/ \E r \in Scheduled : GetPulls(r)
  \/ \E r \in Scheduled : PollNext(r)
  \/ \E r \in Scheduled : SaveState(r)
  \/ \E r \in Scheduled : Crash(r)
  \/ \E r \in Scheduled : Exit(r)

SpecToken == Init /\ [][NextToken]_vars

\* two processes started without regard for each other, against a repository in
\* which pull requests are opened; a deployment without a status file
InitOverlap ==
  /\ Init
  /\ file = AbsentFile
  /\ template = <<"h", "U", " ">>
  /\ ~autoClose

NextOverlap ==
  \/ OpenPull(<<"a">>)
  \/ \E r \in Runs : Launch(r)
  \/ \E r \in Runs : LoadState(r)
  \/ \E r \in Runs : RefreshToken(r)
  \/ \E r \in Runs : LoadTemplate(r)
  \/ \E r \in Runs : GetPulls(r)
  \/ \E r \in Runs : PollNext(r)
  \/ \E r \in Runs : PostComment(r)
  \/ \E r \in Runs : SaveState(r)
  \/ \E r \in Runs : Exit(r)

SpecOverlap == InitOverlap /\ [][NextOverlap]_vars

(* ---- properties ---- *)
BotComments(n) == {i \in 1..Len(repo[n].comments) : repo[n].comments[i].bot}

Loaded == {"token", "msg", "repo", "poll", "post", "save"}

Ended(r) == pc[r] = "done" /\ hist[r].outcome # "crashed"

\* C1: no pull request carries more than one comment of the bot; every comment of
\* the bot is one the duplicate check recognises; and the bot is about to post
\* only on a pull request that carries no comment of its own.
C1_AtMostOneBotComment ==
  /\ \A n \in 1..Len(repo) : Cardinality(BotComments(n)) <= 1
  /\ \A n \in 1..Len(repo) : \A i \in BotComments(n) :
       Contains(Strip(Render(template, repo[n].login).text), repo[n].comments[i].body)
  /\ \A r \in Runs : pc[r] = "post" => BotComments(cur[r].number) = {}

\* a run fetched the comments of a pull request above its mark that already
\* carried the bot's comment of an earlier run, and did not post again
C1_Witness ==
  \E r \in Runs : \E n \in hist[r].fetched :
    /\ n \notin hist[r].commented
    /\ BotComments(n) # {}
    /\ n > hist[r].markAtStart
    /\ pc[r] = "save"

\* C2: every write of the status file stores a mark >= the mark the file held,
\* and the mark of a run's status dictionary never decreases during the run.
C2_MarkMonotonic ==
  [][/\ (file.kind = "json" /\ file'.kind = "json")
          => Mark(WithDefaults(file'.data)) >= Mark(WithDefaults(file.data))
     /\ \A r \in Runs : (pc[r] \in Loaded /\ pc'[r] # "idle")
          => Mark(status'[r]) >= Mark(status[r])]_vars

\* a run has written a mark greater than the one the file held when it started
C2_Witness ==
  \E r \in Runs :
    /\ pc[r] = "done"
    /\ hist[r].writes = 1
    /\ hist[r].fileAtStart.kind = "json"
    /\ file.kind = "json"
    /\ Mark(file.data) > Mark(WithDefaults(hist[r].fileAtStart.data))
    /\ Cardinality(hist[r].succeeded) > 1

NewestFirst(lst) == \A i, j \in DOMAIN lst : i < j => lst[i] > lst[j]

\* C3 (as claimed, for a run given its pull requests newest first): when the run
\* ends, the mark is below the number of every pull request whose handling
\* raised an exception in that run, so that the next run handles it again.
C3_FailedStaysAboveMark ==
  \A r \in Runs : (Ended(r) /\ hist[r].outcome = "ok" /\ NewestFirst(hist[r].listed))
    => \A n \in hist[r].failed : Mark(status[r]) < n

\* C4 (as claimed): when a run ends, the mark is at least the number of every
\* pull request on which the run posted a comment.
C4_PostedReachesMark ==
  \A r \in Runs : (Ended(r) /\ hist[r].outcome = "ok")
    => \A n \in hist[r].commented : Mark(status[r]) >= n

\* C4 (amended): once a pull request has been handled without an exception (the
\* comment posted and, with AUTO_CLOSE, the pull request closed), the mark of the
\* run is at least its number for the rest of the run; a step in which the
\* handling of a pull request fails leaves the mark as it was.
C4_HandledReachesMark ==
  [][\A r \in Runs :
       /\ \A n \in hist'[r].succeeded : Mark(status'[r]) >= n
       /\ (hist'[r].failed # hist[r].failed /\ hist'[r].failed # {})
            => Mark(status'[r]) = Mark(status[r])]_vars

\* with AUTO_CLOSE, one run handled a pull request completely and posted on
\* another whose close call then failed
C4_Witness ==
  \E r \in Runs :
    /\ autoClose
    /\ hist[r].succeeded # {}
    /\ hist[r].commented \cap hist[r].failed # {}
    /\ pc[r] = "done"
    /\ hist[r].outcome = "ok"

\* C5 (as claimed): no run is ended by an exception that leaves poll.
C5_NothingEscapesPoll ==
  \A r \in Runs : hist[r].outcome # "poll_error"

\* C6 (as claimed, for the runs that reached the polling loop): a run that
\* obtained its list of pull requests and was not killed has written the status
\* file exactly once when it ends.
C6_WrittenOncePerRun ==
  \A r \in Runs : (Ended(r) /\ hist[r].polled) => hist[r].writes = 1

\* C7: a run in which a step before polling failed has ended, has listed,
\* fetched, posted, closed and written nothing, and the status file is as it was
\* when the run started.
C7_PrePollFailureTouchesNothing ==
  \A r \in Runs : hist[r].preFail =>
    /\ pc[r] = "done"
    /\ hist[r].outcome \in {"config_error", "state_error", "cred_error",
                            "template_error", "repo_error"}
    /\ file = hist[r].fileAtStart
    /\ ~hist[r].polled
    /\ hist[r].fetched \cup hist[r].commented \cup hist[r].edited \cup hist[r].failed = {}
    /\ hist[r].writes = 0

\* a run refreshed the token in its status dictionary and then found the
\* template unreadable: the file still holds what it held
C7_Witness ==
  \E r \in Runs :
    /\ hist[r].preFail
    /\ hist[r].outcome = "template_error"
    /\ hist[r].tok.called /\ hist[r].tok.lookups = 1 /\ hist[r].tok.issues = 1
    /\ hist[r].fileAtStart.kind = "json"
    /\ status[r] # WithDefaults(hist[r].fileAtStart.data)

\* C8: a run fetches the comments of, posts on and closes only pull requests
\* whose number is above the mark the run started with.
C8_BelowMarkUntouched ==
  \A r \in Runs :
    \A n \in hist[r].fetched \cup hist[r].commented \cup hist[r].edited \cup hist[r].failed :
      n > hist[r].markAtStart

\* a run was given an open pull request at its mark together with a newer one,
\* posted on the newer one and finished the loop
C8_Witness ==
  \E r \in Runs :
    /\ pc[r] = "save"
    /\ hist[r].commented # {}
    /\ \E i \in DOMAIN hist[r].listed :
         /\ hist[r].listed[i] = hist[r].markAtStart
         /\ hist[r].listed[i] \notin hist[r].listedClosed

\* C9: a run neither posts on nor edits a pull request that was closed in the
\* list the run was given.
C9_ClosedUntouched ==
  \A r \in Runs : (hist[r].commented \cup hist[r].edited) \cap hist[r].listedClosed = {}

\* a run was given a closed pull request above its mark, went past it and
\* posted on another pull request
C9_Witness ==
  \E r \in Runs :
    /\ pc[r] = "save"
    /\ iter[r] = <<>>
    /\ hist[r].commented # {}
    /\ \E n \in hist[r].listedClosed : n > hist[r].markAtStart

\* C10: a call of get_or_refresh_token that finds a token and an expiry later
\* than now + 300 s returns that token, makes no call and leaves the status as it
\* was; a call that finds no token, no expiry or an expiry <= now + 300 s makes
\* at most one lookup and one issuance and, when it returns, has made exactly one
\* of each and has stored the issued token and its expiry.
C10_TokenReuse ==
  \A r \in Runs : hist[r].tok.called =>
    LET c == hist[r].tok
        tokenJ == c.before["installation_token"]
        expiryJ == c.before["token_expires_at"]
        present == Truthy(tokenJ) /\ Truthy(expiryJ)
        parsed == Strptime(expiryJ.v)
    IN  /\ (present /\ parsed.ok /\ parsed.ts > c.at + 300)
             => /\ c.ok /\ c.token = tokenJ.v
                /\ c.lookups = 0 /\ c.issues = 0
                /\ c.after = c.before
        /\ (~present \/ (parsed.ok /\ parsed.ts <= c.at + 300))
             => /\ c.lookups <= 1 /\ c.issues <= c.lookups
                /\ c.ok => /\ c.lookups = 1 /\ c.issues = 1
                           /\ c.token = IssuedToken(c.at)
                           /\ c.after["installation_token"] = JStr(c.token)
                           /\ c.after["token_expires_at"] =
                                JStr(FormatIso(c.at + TokenLifetime))
                           /\ c.after["pull_req_number"] = c.before["pull_req_number"]

\* a call found a token whose expiry is exactly now + 300 s and refreshed it
C10_Witness ==
  \E r \in Runs :
    /\ hist[r].tok.called
    /\ Truthy(hist[r].tok.before["installation_token"])
    /\ Truthy(hist[r].tok.before["token_expires_at"])
    /\ Strptime(hist[r].tok.before["token_expires_at"].v).ok
    /\ Strptime(hist[r].tok.before["token_expires_at"].v).ts = hist[r].tok.at + 300
    /\ hist[r].tok.ok
    /\ hist[r].tok.lookups = 1
    /\ hist[r].tok.token # hist[r].tok.before["installation_token"].v

\* C11 (as claimed, for a later run without failures): with AUTO_CLOSE, when a
\* run in which no call failed ends, every pull request whose comments it
\* fetched and that carries a comment of the bot is closed.
C11_CommentedGetsClosed ==
  \A r \in Runs : (autoClose /\ Ended(r) /\ hist[r].outcome = "ok" /\ hist[r].failed = {})
    => \A n \in hist[r].fetched : BotComments(n) # {} => repo[n].closed

StatusKeys == {"pull_req_number", "installation_token", "token_expires_at"}

\* C12: a run that starts without a status file loads the mark 0 and no token,
\* asks the platform for a fresh token, stops at no pull request (every listed
\* open pull request is attempted once the loop is over) and, when it completes,
\* has created the status file with its three fields.
C12_FreshStart ==
  \A r \in Runs :
    (hist[r].fileAtStart.kind = "absent" /\ pc[r] \notin {"idle", "load"}
       /\ hist[r].outcome \notin {"none", "config_error", "crashed"})
    => /\ hist[r].outcome # "state_error"
       /\ hist[r].markAtStart = 0
       /\ pc[r] # "token" =>
            /\ hist[r].tok.called
            /\ hist[r].tok.before = [pull_req_number |-> JInt(0),
                                     installation_token |-> JNull,
                                     token_expires_at |-> JNull]
            /\ hist[r].tok.ok => /\ hist[r].tok.lookups = 1 /\ hist[r].tok.issues = 1
                                 /\ hist[r].tok.token = IssuedToken(hist[r].tok.at)
       /\ hist[r].polled => threshold[r] = 0
       /\ pc[r] = "save" =>
            /\ iter[r] = <<>>
            /\ \A i \in DOMAIN hist[r].listed :
                 hist[r].listed[i] \notin hist[r].listedClosed
                   => hist[r].listed[i] \in hist[r].fetched \cup hist[r].failed
       /\ hist[r].outcome = "ok" =>
            /\ file.kind = "json"
            /\ DOMAIN file.data = StatusKeys
            /\ Mark(file.data) = Mark(status[r])
            /\ hist[r].writes = 1

\* a run that started without a status file posted on pull request 1 and
\* created the file
C12_Witness ==
  \E r \in Runs :
    /\ hist[r].fileAtStart.kind = "absent"
    /\ hist[r].outcome = "ok"
    /\ 1 \in hist[r].succeeded
    /\ file.kind = "json"
    /\ Truthy(file.data["installation_token"])

\* C13: overlapping runs are not safe, and the duplicate check only limits the
\* damage: a pull request can carry more than one comment of the bot, but never
\* more than one for each process that can be running, and each of them is a
\* comment the duplicate check recognises.
C13_OverlapDamageBounded ==
  \A n \in 1..Len(repo) :
    /\ Cardinality(BotComments(n)) <= Cardinality(Runs)
    /\ \A i \in BotComments(n) :
         Contains(Strip(Render(template, repo[n].login).text), repo[n].comments[i].body)

\* two overlapping runs have both posted on the same pull request, both have
\* written the status file, and the file now holds a smaller mark than the one
\* the first of them wrote
C13_Witness ==
  \E r, q \in Runs :
    /\ r # q
    /\ pc[r] = "done" /\ hist[r].outcome = "ok"
    /\ pc[q] = "done" /\ hist[q].outcome = "ok"
    /\ \E n \in hist[r].commented \cap hist[q].commented : Cardinality(BotComments(n)) = 2
    /\ file = JsonFile(status[r])
    /\ Mark(status[q]) > Mark(file.data)

\* C14: while a run polls, its mark changes only in the step that posts the
\* comment (and, with AUTO_CLOSE, closes the pull request), and then to the
\* number of that pull request; a skipped closed pull request, a pull request
\* that already carries the text and a failed attempt leave it alone. So the
\* mark of a run is its value at the start or the number of a pull request the
\* run commented on.
C14_OnlyCommentedAdvances ==
  [][\A r \in Runs :
       /\ (pc[r] \in {"poll", "post"} /\ Mark(status'[r]) # Mark(status[r]))
            => /\ pc[r] = "post"
               /\ Mark(status'[r]) = cur[r].number
               /\ cur[r].number \in hist'[r].commented \ hist[r].commented
               /\ repo'[cur[r].number].comments =
                    Append(repo[cur[r].number].comments, [body |-> cur[r].comment, bot |-> TRUE])
               /\ autoClose => repo'[cur[r].number].closed
       /\ (pc'[r] \in {"poll", "post", "save"} \/ (pc'[r] = "done" /\ hist'[r].polled))
            => Mark(status'[r]) \in {hist'[r].markAtStart} \cup hist'[r].commented]_vars

\* a run has ended after skipping a closed pull request, skipping one that
\* carries the text, failing on one and commenting on one: the mark is the
\* number of the last
C14_Witness ==
  \E r \in Runs :
    /\ Ended(r) /\ hist[r].outcome = "ok"
    /\ hist[r].succeeded # {} /\ hist[r].failed # {}
    /\ Mark(status[r]) \in hist[r].commented
    /\ Mark(status[r]) # hist[r].markAtStart

\* C15: a credential refresh that fails changes nothing. An installation lookup
\* answered with a status other than 200 is not followed by an issuance call; a
\* lookup other than 200 or an issuance other than 201 fails the run, leaves the
\* token and the expiry of the in-memory status as they were and leaves the
\* status file unwritten; and the two fields change only together, to the token
\* and the expiry of one issuance response.
C15_FailedRefreshMutatesNothing ==
  \A r \in Runs : hist[r].tok.called =>
    LET t == hist[r].tok
        nonSuccess == \/ t.lookups = 1 /\ t.lookupStatus # HttpOk
                      \/ t.issues = 1 /\ t.issueStatus # HttpCreated
    IN  /\ t.lookupStatus # HttpOk => t.issues = 0
        /\ t.issues = 1 => t.lookups = 1 /\ t.lookupStatus = HttpOk
        /\ nonSuccess => ~t.ok
        /\ ~t.ok => /\ t.after = t.before
                    /\ status[r] = t.before
                    /\ pc[r] = "done" /\ hist[r].outcome = "cred_error"
                    /\ hist[r].writes = 0
                    /\ file = hist[r].fileAtStart
        /\ (\/ t.after["installation_token"] # t.before["installation_token"]
            \/ t.after["token_expires_at"] # t.before["token_expires_at"])
             => /\ t.ok /\ t.lookups = 1 /\ t.issues = 1
                /\ t.lookupStatus = HttpOk /\ t.issueStatus = HttpCreated
                /\ t.after["installation_token"] = JStr(IssuedToken(t.at))
                /\ t.after["token_expires_at"] = JStr(FormatIso(t.at + TokenLifetime))
        /\ status[r]["installation_token"] = t.after["installation_token"]
        /\ status[r]["token_expires_at"] = t.after["token_expires_at"]
        /\ hist[r].writes = 1 => /\ file.data["installation_token"] = t.after["installation_token"]
                                 /\ file.data["token_expires_at"] = t.after["token_expires_at"]

\* a run whose status file holds a token met a refused issuance call: it has
\* ended, and the file and the in-memory token are the ones it started with
C15_Witness ==
  \E r \in Runs :
    /\ hist[r].tok.called /\ ~hist[r].tok.ok
    /\ hist[r].tok.lookups = 1 /\ hist[r].tok.issues = 1
    /\ hist[r].tok.issueStatus # HttpCreated
    /\ Truthy(hist[r].tok.before["installation_token"])
    /\ pc[r] = "done"

\* the pull requests of the list that come after the first one at or below the
\* threshold
AfterStop(lst, thr) ==
  {lst[j] : j \in {k \in DOMAIN lst : \E i \in 1..(k - 1) : lst[i] <= thr}}

\* C16 (as claimed): within one run the comments are posted in strictly
\* descending order of pull request number, and no pull request that comes after
\* the first one at or below the mark is handled.
C16_NewestFirst ==
  \A r \in Runs : hist[r].polled =>
    /\ NewestFirst(hist[r].posts)
    /\ AfterStop(hist[r].listed, hist[r].markAtStart)
         \cap (hist[r].fetched \cup hist[r].commented \cup hist[r].edited \cup hist[r].failed) = {}

\* the open pull requests of the list above the mark the run started with
Pending(r) ==
  {n \in {hist[r].listed[i] : i \in DOMAIN hist[r].listed} \ hist[r].listedClosed :
     n > hist[r].markAtStart}

\* every pending pull request was examined, and received exactly one comment
\* unless it already carried the text
AllPendingHandled(r) ==
  \A n \in Pending(r) :
    /\ n \in hist[r].fetched
    /\ n \in hist[r].commented
         => Cardinality({i \in DOMAIN hist[r].posts : hist[r].posts[i] = n}) = 1
    /\ n \notin hist[r].commented
         => IsDuplicate(Render(template, repo[n].login).text, repo[n].comments)

\* C17 (as claimed): the loop stops at the mark the run started with, so a run
\* without failures leaves no open pull request above that mark unhandled: each
\* one receives exactly one comment unless it already carries the text.
C17_AllPendingCommented ==
  \A r \in Runs : (Ended(r) /\ hist[r].outcome = "ok" /\ hist[r].failed = {})
    => AllPendingHandled(r)

\* C18: a call of get_or_refresh_token that finds a token and an expiry string
\* that does not end in the literal Z never returns the cached token and makes
\* no more than one lookup and one issuance; it fails only when the key or one
\* of the two exchanges does, and when it returns it has made exactly one of
\* each and has replaced both the token and the expiry by the issued ones.
C18_UnparseableExpiryIsMiss ==
  \A r \in Runs : hist[r].tok.called =>
    LET c == hist[r].tok
        tokenJ == c.before["installation_token"]
        expiryJ == c.before["token_expires_at"]
    IN  (Truthy(tokenJ) /\ Truthy(expiryJ) /\ expiryJ.v.tz # "Z")
          => /\ c.lookups <= 1 /\ c.issues <= c.lookups
             /\ ~c.ok => \/ ~c.keyReadable
                         \/ c.lookupStatus # HttpOk
                         \/ c.issueStatus # HttpCreated
             /\ c.ok => /\ c.lookups = 1 /\ c.issues = 1
                        /\ c.token = IssuedToken(c.at)
                        /\ c.token # tokenJ.v
                        /\ c.after["installation_token"] = JStr(IssuedToken(c.at))
                        /\ c.after["token_expires_at"] = JStr(FormatIso(c.at + TokenLifetime))
                        /\ c.after["token_expires_at"] # expiryJ
                        /\ c.after["pull_req_number"] = c.before["pull_req_number"]

\* a run found a token with an expiry written with a numeric offset, obtained a
\* fresh token and has written both to the status file
C18_Witness ==
  \E r \in Runs :
    /\ hist[r].tok.called /\ hist[r].tok.ok
    /\ Truthy(hist[r].tok.before["installation_token"])
    /\ Truthy(hist[r].tok.before["token_expires_at"])
    /\ hist[r].tok.before["token_expires_at"].v.tz # "Z"
    /\ hist[r].writes = 1
    /\ file.data["installation_token"] = JStr(IssuedToken(hist[r].tok.at))

====
